---- MODULE Spec2Model ----
(***************************************************************************)
(* Model of Pyrlang/process.py: the Process greenlet (actor), its inbox,   *)
(* its run loop and exit, together with the parts of Node (process         *)
(* registry) and Mailbox that Process calls.                                *)
(*                                                                          *)
(* Scheduling is gevent's: greenlets are cooperative, so a constructor or  *)
(* an exit() call runs to completion as one step.  The run loop can be     *)
(* suspended at inbox_.get() (empty queue) and at gevent.sleep(0); the     *)
(* handler hook is overridable and may itself yield, so one dequeue and    *)
(* its dispatch form one step of the loop.                                  *)
(***************************************************************************)
EXTENDS Naturals, Sequences, FiniteSets, TLC

\* ---- bounds --------------------------------------------------------------
NumActors == 2      \* Process objects that may be constructed
MaxPush   == 4      \* pushes (inbox_.put) performed in one behaviour
MaxExit   == 2      \* exit() calls performed in one behaviour

Actors == 1 .. NumActors
Pids   == 1 .. NumActors

\* ---- values --------------------------------------------------------------
None    == "None"                \* the sentinel of handle_inbox (msg is None)
Letters == << "a", "b", "c", "d", "e", "f" >>
Msgs    == { Letters[i] : i \in DOMAIN Letters }     \* non-sentinel payloads
NoPid   == 0                     \* pid_ attribute not (yet) assigned
NoProc  == 0                     \* registry lookup: not found

VARIABLES
    pc,                \* position of the greenlet of each Process
    pid_,              \* Process.pid_
    is_exiting_,       \* Process.is_exiting_
    inbox_,            \* Process.inbox_ : contents of the Mailbox queue
    monitors_,         \* Process.monitors_
    monitor_targets_,  \* Process.monitor_targets_
    processes_,        \* Node: pid -> Process (NoProc when absent)
    pid_counter_,      \* Node: next pid to issue
    reg_failed,        \* history: register_new_process raised for this object
    raised,            \* history: the constructor raised to its caller
    pushed,            \* history: every value put to the inbox, in order
    handled,           \* history: arguments of handle_one_inbox_message
    exit_calls,        \* history: exit() calls that have returned
    removal_requests,  \* history: on_exit_process calls per pid
    pushes             \* history: number of pushes so far

vars == << pc, pid_, is_exiting_, inbox_, monitors_, monitor_targets_,
           processes_, pid_counter_, reg_failed, raised, pushed, handled,
           exit_calls, removal_requests, pushes >>

\* ---- Node (process registry) ---------------------------------------------
\* registerNewProcess: issue a fresh pid and install the mapping.
register_new_process(reg, counter, a) ==
    [ pid |-> counter,
      processes |-> [reg EXCEPT ![counter] = a],
      counter |-> counter + 1 ]

\* onExitProcess: remove the mapping if present; absent pid is a no-op.
on_exit_process(reg, pid) ==
    [ p \in DOMAIN reg |-> IF p = pid THEN NoProc ELSE reg[p] ]

\* Registry lookup by pid.
lookup(reg, pid) == IF pid \in DOMAIN reg THEN reg[pid] ELSE NoProc

\* ---- Mailbox -------------------------------------------------------------
\* put: enqueue at the tail, never blocks.
Mailbox_put(q, msg) == Append(q, msg)

\* get: the head; the caller is blocked while the queue is empty.
Mailbox_can_get(q) == q # << >>
Mailbox_get(q) == [ msg |-> Head(q), rest |-> Tail(q) ]

\* ---- Process -------------------------------------------------------------
Init ==
    /\ pc = [a \in Actors |-> "unborn"]
    /\ pid_ = [a \in Actors |-> NoPid]
    /\ is_exiting_ = [a \in Actors |-> FALSE]
    /\ inbox_ = [a \in Actors |-> << >>]
    /\ monitors_ = [a \in Actors |-> {}]
    /\ monitor_targets_ = [a \in Actors |-> {}]
    /\ processes_ = [p \in Pids |-> NoProc]
    /\ pid_counter_ = 1
    /\ reg_failed = [a \in Actors |-> FALSE]
    /\ raised = [a \in Actors |-> FALSE]
    /\ pushed = [a \in Actors |-> << >>]
    /\ handled = [a \in Actors |-> << >>]
    /\ exit_calls = [a \in Actors |-> 0]
    /\ removal_requests = [p \in Pids |-> 0]
    /\ pushes = 0

\* The object exists and its constructor returned normally.
Constructed(a) == pc[a] \notin {"unborn", "failed"}

\* Variant of __init__: the pid is taken but the mapping is never installed.
Process_init_NoRegister(a, ok) ==
    /\ pc[a] = "unborn"
    /\ inbox_' = [inbox_ EXCEPT ![a] = << >>]
    /\ reg_failed' = [reg_failed EXCEPT ![a] = ~ok]
    /\ IF ok
       THEN /\ pid_counter_' = pid_counter_ + 1
            /\ pid_' = [pid_ EXCEPT ![a] = pid_counter_]
            /\ pc' = [pc EXCEPT ![a] = "scheduled"]
            /\ UNCHANGED << raised, processes_ >>
       ELSE /\ raised' = [raised EXCEPT ![a] = TRUE]
            /\ pc' = [pc EXCEPT ![a] = "failed"]
            /\ UNCHANGED << processes_, pid_counter_, pid_ >>
    /\ UNCHANGED << is_exiting_, monitors_, monitor_targets_, pushed,
                    handled, exit_calls, removal_requests, pushes >>

\* Variant of __init__: a failure of register_new_process is swallowed and
\* the greenlet is started all the same.
Process_init_Swallow(a, ok) ==
    /\ pc[a] = "unborn"
    /\ inbox_' = [inbox_ EXCEPT ![a] = << >>]
    /\ reg_failed' = [reg_failed EXCEPT ![a] = ~ok]
    /\ IF ok
       THEN LET r == register_new_process(processes_, pid_counter_, a) IN
            /\ processes_' = r.processes
            /\ pid_counter_' = r.counter
            /\ pid_' = [pid_ EXCEPT ![a] = r.pid]
       ELSE UNCHANGED << processes_, pid_counter_, pid_ >>
    /\ pc' = [pc EXCEPT ![a] = "scheduled"]
    /\ UNCHANGED << raised, is_exiting_, monitors_, monitor_targets_, pushed,
                    handled, exit_calls, removal_requests, pushes >>

\* Process.__init__(node); ok = FALSE: node.register_new_process raises.
Process_init(a, ok) ==
    /\ pc[a] = "unborn"
    /\ inbox_' = [inbox_ EXCEPT ![a] = << >>]
    /\ reg_failed' = [reg_failed EXCEPT ![a] = ~ok]
    /\ IF ok
       THEN LET r == register_new_process(processes_, pid_counter_, a) IN
            /\ processes_' = r.processes
            /\ pid_counter_' = r.counter
            /\ pid_' = [pid_ EXCEPT ![a] = r.pid]
            /\ is_exiting_' = [is_exiting_ EXCEPT ![a] = FALSE]
            /\ monitors_' = [monitors_ EXCEPT ![a] = {}]
            /\ monitor_targets_' = [monitor_targets_ EXCEPT ![a] = {}]
            /\ pc' = [pc EXCEPT ![a] = "scheduled"]      \* self.start()
            /\ UNCHANGED raised
       ELSE /\ raised' = [raised EXCEPT ![a] = TRUE]
            /\ pc' = [pc EXCEPT ![a] = "failed"]
            /\ UNCHANGED << processes_, pid_counter_, pid_, is_exiting_,
                            monitors_, monitor_targets_ >>
    /\ UNCHANGED << pushed, handled, exit_calls, removal_requests, pushes >>

\* Variant of _run: `if` in place of `while`, a single drain pass.
Process_run_Once(a) ==
    /\ pc[a] \in {"scheduled", "sleep"}
    /\ pc' = [pc EXCEPT ![a] = IF pc[a] = "sleep" \/ is_exiting_[a]
                                 THEN "done" ELSE "get"]
    /\ UNCHANGED << pid_, is_exiting_, inbox_, monitors_, monitor_targets_,
                    processes_, pid_counter_, reg_failed, raised, pushed,
                    handled, exit_calls, removal_requests, pushes >>

\* Process._run: the loop condition, evaluated when the greenlet is first
\* run and each time it resumes from gevent.sleep(0).
Process_run(a) ==
    /\ pc[a] \in {"scheduled", "sleep"}
    /\ pc' = [pc EXCEPT ![a] = IF is_exiting_[a] THEN "done" ELSE "get"]
    /\ UNCHANGED << pid_, is_exiting_, inbox_, monitors_, monitor_targets_,
                    processes_, pid_counter_, reg_failed, raised, pushed,
                    handled, exit_calls, removal_requests, pushes >>

\* Process.handle_one_inbox_message(msg): the default hook only logs.
handle_one_inbox_message(a, msg) ==
    handled' = [handled EXCEPT ![a] = Append(@, msg)]

\* Variant of handle_inbox: the sentinel is skipped instead of ending the pass.
handle_inbox_NoBreak(a) ==
    /\ pc[a] = "get"
    /\ Mailbox_can_get(inbox_[a])
    /\ LET g == Mailbox_get(inbox_[a]) IN
       /\ inbox_' = [inbox_ EXCEPT ![a] = g.rest]
       /\ IF g.msg = None
          THEN UNCHANGED << pc, handled >>
          ELSE /\ handle_one_inbox_message(a, g.msg)
               /\ UNCHANGED pc
    /\ UNCHANGED << pid_, is_exiting_, monitors_, monitor_targets_,
                    processes_, pid_counter_, reg_failed, raised, pushed,
                    exit_calls, removal_requests, pushes >>

\* Variant of handle_inbox: the message is dispatched before the None test.
handle_inbox_ForwardAll(a) ==
    /\ pc[a] = "get"
    /\ Mailbox_can_get(inbox_[a])
    /\ LET g == Mailbox_get(inbox_[a]) IN
       /\ inbox_' = [inbox_ EXCEPT ![a] = g.rest]
       /\ handle_one_inbox_message(a, g.msg)
       /\ pc' = [pc EXCEPT ![a] = IF g.msg = None THEN "sleep" ELSE "get"]
    /\ UNCHANGED << pid_, is_exiting_, monitors_, monitor_targets_,
                    processes_, pid_counter_, reg_failed, raised, pushed,
                    exit_calls, removal_requests, pushes >>

\* Variant of handle_inbox: each message is dispatched twice.
handle_inbox_Twice(a) ==
    /\ pc[a] = "get"
    /\ Mailbox_can_get(inbox_[a])
    /\ LET g == Mailbox_get(inbox_[a]) IN
       /\ inbox_' = [inbox_ EXCEPT ![a] = g.rest]
       /\ IF g.msg = None
          THEN /\ pc' = [pc EXCEPT ![a] = "sleep"]
               /\ UNCHANGED handled
          ELSE /\ handled' = [handled EXCEPT ![a] = @ \o << g.msg, g.msg >>]
               /\ UNCHANGED pc
    /\ UNCHANGED << pid_, is_exiting_, monitors_, monitor_targets_,
                    processes_, pid_counter_, reg_failed, raised, pushed,
                    exit_calls, removal_requests, pushes >>

\* Variant of handle_inbox: the call of the handler is missing.
handle_inbox_NoDispatch(a) ==
    /\ pc[a] = "get"
    /\ Mailbox_can_get(inbox_[a])
    /\ LET g == Mailbox_get(inbox_[a]) IN
       /\ inbox_' = [inbox_ EXCEPT ![a] = g.rest]
       /\ IF g.msg = None
          THEN pc' = [pc EXCEPT ![a] = "sleep"]
          ELSE UNCHANGED pc
       /\ UNCHANGED handled
    /\ UNCHANGED << pid_, is_exiting_, monitors_, monitor_targets_,
                    processes_, pid_counter_, reg_failed, raised, pushed,
                    exit_calls, removal_requests, pushes >>

\* Variant of handle_inbox: a non-blocking get, the pass ends when the queue
\* is empty.
handle_inbox_BreakOnEmpty(a) ==
    /\ pc[a] = "get"
    /\ IF Mailbox_can_get(inbox_[a])
       THEN LET g == Mailbox_get(inbox_[a]) IN
            /\ inbox_' = [inbox_ EXCEPT ![a] = g.rest]
            /\ IF g.msg = None
               THEN /\ pc' = [pc EXCEPT ![a] = "sleep"]
                    /\ UNCHANGED handled
               ELSE /\ handle_one_inbox_message(a, g.msg)
                    /\ UNCHANGED pc
       ELSE /\ pc' = [pc EXCEPT ![a] = "sleep"]
            /\ UNCHANGED << inbox_, handled >>
    /\ UNCHANGED << pid_, is_exiting_, monitors_, monitor_targets_,
                    processes_, pid_counter_, reg_failed, raised, pushed,
                    exit_calls, removal_requests, pushes >>

\* Variant of handle_inbox: the get blocks the thread and not only the
\* greenlet, so nobody dequeues while another loop waits on an empty queue.
handle_inbox_BlocksThread(a) ==
    /\ pc[a] = "get"
    /\ \A b \in Actors \ {a} : ~(pc[b] = "get" /\ inbox_[b] = << >>)
    /\ Mailbox_can_get(inbox_[a])
    /\ LET g == Mailbox_get(inbox_[a]) IN
       /\ inbox_' = [inbox_ EXCEPT ![a] = g.rest]
       /\ IF g.msg = None
          THEN /\ pc' = [pc EXCEPT ![a] = "sleep"]
               /\ UNCHANGED handled
          ELSE /\ handle_one_inbox_message(a, g.msg)
               /\ UNCHANGED pc
    /\ UNCHANGED << pid_, is_exiting_, monitors_, monitor_targets_,
                    processes_, pid_counter_, reg_failed, raised, pushed,
                    exit_calls, removal_requests, pushes >>

\* Variant of handle_inbox: the sentinel also unregisters the process.
handle_inbox_UnregisterOnNone(a) ==
    /\ pc[a] = "get"
    /\ Mailbox_can_get(inbox_[a])
    /\ LET g == Mailbox_get(inbox_[a]) IN
       /\ inbox_' = [inbox_ EXCEPT ![a] = g.rest]
       /\ IF g.msg = None
          THEN /\ pc' = [pc EXCEPT ![a] = "sleep"]
               /\ processes_' = on_exit_process(processes_, pid_[a])
               /\ UNCHANGED handled
          ELSE /\ handle_one_inbox_message(a, g.msg)
               /\ UNCHANGED << pc, processes_ >>
    /\ UNCHANGED << pid_, is_exiting_, monitors_, monitor_targets_,
                    pid_counter_, reg_failed, raised, pushed,
                    exit_calls, removal_requests, pushes >>

\* Process.handle_inbox: one iteration of its while True loop.
handle_inbox(a) ==
    /\ pc[a] = "get"
    /\ Mailbox_can_get(inbox_[a])
    /\ LET g == Mailbox_get(inbox_[a]) IN
       /\ inbox_' = [inbox_ EXCEPT ![a] = g.rest]
       /\ IF g.msg = None
          THEN /\ pc' = [pc EXCEPT ![a] = "sleep"]      \* break
               /\ UNCHANGED handled
          ELSE /\ handle_one_inbox_message(a, g.msg)
               /\ UNCHANGED pc
    /\ UNCHANGED << pid_, is_exiting_, monitors_, monitor_targets_,
                    processes_, pid_counter_, reg_failed, raised, pushed,
                    exit_calls, removal_requests, pushes >>

\* Number of exit() calls so far, over all Processes.
RECURSIVE SumOver(_, _)
SumOver(f, S) ==
    IF S = {} THEN 0
    ELSE LET x == CHOOSE y \in S : TRUE IN f[x] + SumOver(f, S \ {x})
exits == SumOver(exit_calls, Actors)

\* Variant of exit: the node is never told.
Process_exit_NoUnregister(a) ==
    /\ Constructed(a)
    /\ exits < MaxExit
    /\ exit_calls' = [exit_calls EXCEPT ![a] = @ + 1]
    /\ UNCHANGED << pc, pid_, is_exiting_, inbox_, monitors_,
                    monitor_targets_, processes_, pid_counter_, reg_failed,
                    raised, pushed, handled, pushes, removal_requests >>

\* Variant of exit: the greenlet is killed as well.
Process_exit_Kill(a) ==
    /\ Constructed(a)
    /\ exits < MaxExit
    /\ processes_' = on_exit_process(processes_, pid_[a])
    /\ removal_requests' = [removal_requests EXCEPT ![pid_[a]] = @ + 1]
    /\ exit_calls' = [exit_calls EXCEPT ![a] = @ + 1]
    /\ pc' = [pc EXCEPT ![a] = "done"]
    /\ UNCHANGED << pid_, is_exiting_, inbox_, monitors_,
                    monitor_targets_, pid_counter_, reg_failed, raised,
                    pushed, handled, pushes >>

\* Variant of exit: every process of the node is woken with a sentinel.
Process_exit_WakeAll(a) ==
    /\ Constructed(a)
    /\ exits < MaxExit
    /\ processes_' = on_exit_process(processes_, pid_[a])
    /\ removal_requests' = [removal_requests EXCEPT ![pid_[a]] = @ + 1]
    /\ exit_calls' = [exit_calls EXCEPT ![a] = @ + 1]
    /\ inbox_' = [b \in Actors |->
                    IF Constructed(b) THEN Mailbox_put(inbox_[b], None)
                                      ELSE inbox_[b]]
    /\ UNCHANGED << pc, pid_, is_exiting_, monitors_,
                    monitor_targets_, pid_counter_, reg_failed, raised,
                    pushed, handled, pushes >>

\* Variant of exit: links and monitors are informed, as the TODO of exit
\* announces: a notification is put into the inbox of every monitoring process
\* and this process is taken out of the monitors_ of the ones it monitors.
Process_exit_Notify(a) ==
    /\ Constructed(a)
    /\ exits < MaxExit
    /\ processes_' = on_exit_process(processes_, pid_[a])
    /\ removal_requests' = [removal_requests EXCEPT ![pid_[a]] = @ + 1]
    /\ exit_calls' = [exit_calls EXCEPT ![a] = @ + 1]
    /\ inbox_' = [b \in Actors |->
                    IF Constructed(b) /\ pid_[b] \in monitors_[a]
                    THEN Mailbox_put(inbox_[b], "DOWN")
                    ELSE inbox_[b]]
    /\ monitors_' = [b \in Actors |->
                       IF Constructed(b) /\ pid_[b] \in monitor_targets_[a]
                       THEN monitors_[b] \ {pid_[a]}
                       ELSE monitors_[b]]
    /\ UNCHANGED << pc, pid_, is_exiting_, monitor_targets_, pid_counter_,
                    reg_failed, raised, pushed, handled, pushes >>

\* Process.exit(reason)
Process_exit(a) ==
    /\ Constructed(a)
    /\ exits < MaxExit
    /\ processes_' = on_exit_process(processes_, pid_[a])
    /\ removal_requests' = [removal_requests EXCEPT ![pid_[a]] = @ + 1]
    /\ exit_calls' = [exit_calls EXCEPT ![a] = @ + 1]
    /\ UNCHANGED << pc, pid_, is_exiting_, inbox_, monitors_,
                    monitor_targets_, pid_counter_, reg_failed, raised,
                    pushed, handled, pushes >>

\* The sender's k-th non-sentinel message to one inbox: m1, m2, m3, ...
NonSentinel(s) == SelectSeq(s, LAMBDA m : m # None)
NextMsg(a) == Letters[(Len(NonSentinel(pushed[a])) % Len(Letters)) + 1]

\* A holder of the Process object puts msg into its inbox_.
Push(a, msg) ==
    /\ Constructed(a)
    /\ pushes < MaxPush
    /\ inbox_' = [inbox_ EXCEPT ![a] = Mailbox_put(@, msg)]
    /\ pushed' = [pushed EXCEPT ![a] = Append(@, msg)]
    /\ pushes' = pushes + 1
    /\ UNCHANGED << pc, pid_, is_exiting_, monitors_, monitor_targets_,
                    processes_, pid_counter_, reg_failed, raised, handled,
                    exit_calls, removal_requests >>

\* Process objects are numbered in the order of their construction.
IsNextObject(a) == \A b \in Actors : b < a => pc[b] # "unborn"

Spawn == \E a \in Actors, ok \in BOOLEAN : IsNextObject(a) /\ Process_init(a, ok)
Run == \E a \in Actors : Process_run(a)
Drain == \E a \in Actors : handle_inbox(a)
Exit == \E a \in Actors : Process_exit(a)
Send == \E a \in Actors : \E msg \in {NextMsg(a), None} : Push(a, msg)

Next == Spawn \/ Run \/ Drain \/ Exit \/ Send

Spec == Init /\ [][Next]_vars

\* One Process, its callers and its greenlet.  gevent runs every runnable
\* greenlet in turn, so a step of the run loop that stays possible is
\* eventually taken; a loop blocked in inbox_.get() on an empty queue has no
\* step to take.
Solo == 1
SoloSpawn == \E ok \in BOOLEAN : Process_init(Solo, ok)
SoloRun == Process_run(Solo)
SoloDrain == handle_inbox(Solo)
SoloExit == Process_exit(Solo)
SoloSend == \E msg \in {NextMsg(Solo), None} : Push(Solo, msg)

SoloNext == SoloSpawn \/ SoloRun \/ SoloDrain \/ SoloExit \/ SoloSend

SoloSpec ==
    /\ Init
    /\ [][SoloNext]_vars
    /\ WF_vars(SoloRun)
    /\ WF_vars(SoloDrain)

\* Two Processes, their callers and their greenlets under gevent: every
\* greenlet that can take a step is eventually run, because every other
\* greenlet reaches inbox_.get() on an empty queue or gevent.sleep(0).
Duo == {1, 2}
DuoSpawn == \E a \in Duo, ok \in BOOLEAN : IsNextObject(a) /\ Process_init(a, ok)
DuoRun == \E a \in Duo : Process_run(a)
DuoDrain == \E a \in Duo : handle_inbox(a)
DuoExit == \E a \in Duo : Process_exit(a)
DuoSend == \E a \in Duo : \E msg \in {NextMsg(a), None} : Push(a, msg)

DuoNext == DuoSpawn \/ DuoRun \/ DuoDrain \/ DuoExit \/ DuoSend

DuoSpec ==
    /\ Init
    /\ [][DuoNext]_vars
    /\ \A a \in Duo : WF_vars(Process_run(a)) /\ WF_vars(handle_inbox(a))

\* Monitor bookkeeping done for a process by the node: process a starts to
\* monitor process b.
Monitor(a, b) ==
    /\ a # b
    /\ Constructed(a) /\ lookup(processes_, pid_[a]) = a
    /\ Constructed(b) /\ lookup(processes_, pid_[b]) = b
    /\ pid_[b] \notin monitor_targets_[a]
    /\ monitor_targets_' = [monitor_targets_ EXCEPT ![a] = @ \cup {pid_[b]}]
    /\ monitors_' = [monitors_ EXCEPT ![b] = @ \cup {pid_[a]}]
    /\ UNCHANGED << pc, pid_, is_exiting_, inbox_, processes_, pid_counter_,
                    reg_failed, raised, pushed, handled, exit_calls,
                    removal_requests, pushes >>

\* Two Processes that may monitor each other.
DuoMonitor == \E a \in Duo, b \in Duo : Monitor(a, b)

MonNext == DuoSpawn \/ DuoRun \/ DuoDrain \/ DuoExit \/ DuoSend \/ DuoMonitor

MonSpec == Init /\ [][MonNext]_vars

\* ---- auxiliary definitions for the properties ----------------------------
Range(s) == { s[i] : i \in DOMAIN s }
IsPrefix(s, t) == Len(s) <= Len(t) /\ \A i \in 1 .. Len(s) : s[i] = t[i]
\* Number of values the run loop has taken out of the inbox so far.
Dequeued(a) == Len(pushed[a]) - Len(inbox_[a])
\* The run loop is between its first step and its return.
Running(a) == pc[a] \in {"get", "sleep"}
Live(a) == Constructed(a) /\ exit_calls[a] = 0
ABC == << "a", "b", "c" >>
ABCN == << "a", "b", "c", None >>

TypeOK ==
    /\ pc \in [Actors -> {"unborn", "failed", "scheduled", "get", "sleep", "done"}]
    /\ pid_ \in [Actors -> Pids \cup {NoPid}]
    /\ is_exiting_ \in [Actors -> BOOLEAN]
    /\ processes_ \in [Pids -> Actors \cup {NoProc}]
    /\ \A a \in Actors : Range(pushed[a]) \subseteq Msgs \cup {None}
    /\ pushes \in 0 .. MaxPush

\* ---- C1 ------------------------------------------------------------------
\* C1 (as stated): for an actor whose run loop is running, every sentinel
\* pushed to its mailbox leads to the termination of _run, exit not needed.
\* (A behaviour that refutes it ends with the loop back in inbox_.get() on an
\* empty queue, is_exiting_ false: the greenlet is blocked there in the code
\* as well, whether or not anything more could be pushed.)
C1_SentinelTerminatesRun ==
    \A a \in Actors : \A i \in 1 .. MaxPush :
        (Len(pushed[a]) >= i /\ pushed[a][i] = None) ~> (pc[a] = "done")

\* C1 (amended): every sentinel pushed to the mailbox of a started actor is
\* eventually dequeued and ends the drain pass that dequeued it: handle_inbox
\* returns and the loop is at its yield point, the sentinel being the last
\* value taken out of the inbox.  (Dequeued(a) < i: still in the inbox.)
C1_SentinelEndsDrainPass ==
    \A a \in Actors : \A i \in 1 .. MaxPush :
        (Len(pushed[a]) >= i /\ pushed[a][i] = None /\ Dequeued(a) < i)
            ~> (Dequeued(a) = i /\ pc[a] = "sleep")

C1_Witness ==
    \E a \in Actors :
        /\ Dequeued(a) = 2 /\ pushed[a][2] = None /\ pushed[a][1] # None
        /\ pc[a] = "sleep"

\* ---- C2 ------------------------------------------------------------------
\* C2: handle_one_inbox_message is never invoked with the sentinel, whatever
\* was pushed.
C2_SentinelNeverHandled ==
    \A a \in Actors : None \notin Range(handled[a])

\* A sentinel was dequeued between two dispatched messages.
C2_Witness ==
    \E a \in Actors :
        /\ Len(handled[a]) = 2
        /\ Dequeued(a) = 3
        /\ pushed[a][2] = None

\* ---- C3 ------------------------------------------------------------------
\* C3: the values dispatched to the handler are at every moment a prefix of
\* the non-sentinel values pushed, in push order.
C3_HandledIsPrefixOfPushed ==
    \A a \in Actors : IsPrefix(handled[a], NonSentinel(pushed[a]))

C3_Witness ==
    \E a \in Actors :
        /\ handled[a] = ABC
        /\ Len(NonSentinel(pushed[a])) = 4
        /\ inbox_[a] # << >>

\* ---- C4 ------------------------------------------------------------------
\* C4 (as stated): after pushes a, b, c and the sentinel the handler has been
\* invoked with exactly a, b, c and the run loop is terminated.
C4_ScenarioTerminates ==
    \A a \in Actors :
        (pushed[a] = ABCN) ~> (handled[a] = ABC /\ pc[a] = "done")

\* C4 (amended): after pushes a, b, c and the sentinel the handler is
\* eventually invoked with exactly a, b, c in that order, and the dequeue of
\* the sentinel ends the drain pass (the loop is at its yield point); no
\* fourth dispatch happens while nothing else is pushed.
C4_ScenarioDrains ==
    /\ \A a \in Actors :
          (pushed[a] = ABCN /\ Dequeued(a) < 4)
              ~> (handled[a] = ABC /\ Dequeued(a) = 4 /\ pc[a] = "sleep")
    /\ [](\A a \in Actors : pushed[a] = ABCN => IsPrefix(handled[a], ABC))

\* The scenario has run to its end: the loop blocks again on the empty inbox.
C4_Witness ==
    \E a \in Actors :
        /\ pushed[a] = ABCN
        /\ handled[a] = ABC
        /\ inbox_[a] = << >>
        /\ pc[a] = "get"

\* ---- C5 ------------------------------------------------------------------
\* C5: once exit has returned for an actor, the registry has no entry for
\* its pid_, whatever the run loop was doing.
C5_ExitUnregisters ==
    \A a \in Actors :
        exit_calls[a] > 0 => lookup(processes_, pid_[a]) = NoProc

\* exit was called while the loop was in the middle of a drain pass.
C5_Witness ==
    \E a \in Actors :
        /\ exit_calls[a] = 1
        /\ pc[a] = "get"
        /\ handled[a] # << >>
        /\ inbox_[a] # << >>
        /\ lookup(processes_, pid_[a]) = NoProc

\* ---- C6 ------------------------------------------------------------------
\* C6: after exit has returned, is_exiting_ of that actor is true.
C6_ExitSetsExitingFlag ==
    \A a \in Actors : exit_calls[a] > 0 => is_exiting_[a]

\* ---- C7 ------------------------------------------------------------------
\* C7: a second exit on the same actor sends no second removal request
\* (on_exit_process) for its pid.
C7_NoSecondRemovalRequest ==
    \A p \in Pids : removal_requests[p] <= 1

\* ---- C8 ------------------------------------------------------------------
\* C8: the actors spawned and not exited have pairwise distinct pids, and the
\* registry maps each of these pids to its actor, from the return of the
\* constructor on (the greenlet is then scheduled and has not yet run).
C8_LivePidsDistinctAndRegistered ==
    \A a \in Actors :
        Live(a) =>
            /\ pid_[a] \in Pids
            /\ lookup(processes_, pid_[a]) = a
            /\ \A b \in Actors : (Live(b) /\ b # a) => pid_[b] # pid_[a]

\* Two live actors, the older one in a drain pass, the newer one constructed
\* and not yet run.
C8_Witness ==
    \E a, b \in Actors :
        /\ a # b
        /\ Live(a) /\ Live(b)
        /\ pid_[a] < pid_[b]
        /\ pc[a] = "get"
        /\ pc[b] = "scheduled"

\* ---- C9 ------------------------------------------------------------------
\* C9: when exit has been called on an actor, the next evaluation of the
\* loop condition of its run loop ends the loop.
C9_LoopStopsAtNextCheck ==
    [][ \A a \in Actors :
          (exit_calls[a] > 0 /\ pc[a] \in {"scheduled", "sleep"}
              /\ pc'[a] # pc[a]) => pc'[a] = "done" ]_vars

\* ---- C10 -----------------------------------------------------------------
\* C10: when register_new_process raises, the constructor raises to its
\* caller, the registry has no entry for the object and its greenlet is
\* never started.
C10_FailedSpawnIsVisible ==
    \A a \in Actors :
        reg_failed[a] =>
            /\ raised[a]
            /\ pc[a] = "failed"
            /\ pid_[a] = NoPid
            /\ \A p \in Pids : processes_[p] # a

\* One construction failed, a later one succeeded.
C10_Witness ==
    \E a, b \in Actors :
        /\ reg_failed[a] /\ raised[a]
        /\ Live(b) /\ pc[b] = "get"

\* ---- C11 -----------------------------------------------------------------
\* C11: a push to the mailbox of an actor on which exit has returned is not
\* accepted into that mailbox (it is refused and reported to the pusher).
C11_PushToExitedNotAccepted ==
    [][ \A a \in Actors :
          (exit_calls[a] > 0 /\ pushed'[a] # pushed[a])
              => inbox_'[a] = inbox_[a] ]_vars

\* ---- C12 -----------------------------------------------------------------
\* C12 (as stated): once the run loop of an actor has dequeued a sentinel,
\* nothing more is dispatched to its handler.
C12_NoDispatchAfterSentinel ==
    [][ \A a \in Actors :
          (\E i \in 1 .. Dequeued(a) : pushed[a][i] = None)
              => handled'[a] = handled[a] ]_vars

\* C12 (amended): the step that dequeues a sentinel dispatches nothing and
\* ends the drain pass (the loop is at its yield point), and nothing is
\* dispatched while the loop is outside handle_inbox; dispatch resumes only
\* in a later drain pass.
C12_SentinelEndsPassWithoutDispatch ==
    [][ \A a \in Actors :
          /\ (/\ pc[a] = "get"
              /\ inbox_[a] # << >>
              /\ Head(inbox_[a]) = None
              /\ Len(inbox_'[a]) < Len(inbox_[a]))
                 => (handled'[a] = handled[a] /\ pc'[a] = "sleep")
          /\ pc[a] # "get" => handled'[a] = handled[a] ]_vars

\* A sentinel was dequeued, a later message is waiting and the loop is at its
\* yield point, nothing dispatched since.
C12_Witness ==
    \E a \in Actors :
        /\ pc[a] = "sleep"
        /\ Dequeued(a) = 2
        /\ pushed[a][2] = None
        /\ Len(handled[a]) = 1
        /\ inbox_[a] # << >>
        /\ Head(inbox_[a]) # None

\* ---- C13 -----------------------------------------------------------------
\* C13 (as stated): an actor in a drain pass whose mailbox is empty finishes
\* the pass and reaches the yield point of the run loop.
\* (A behaviour that refutes it ends with the loop in inbox_.get() on an empty
\* queue: the greenlet is blocked there in the code as well.)
C13_EmptyMailboxEndsPass ==
    \A a \in Actors : (pc[a] = "get" /\ inbox_[a] = << >>) ~> (pc[a] = "sleep")

\* C13 (amended): a drain pass ends only when the sentinel is dequeued, and
\* the loop is then at its yield point; on an empty mailbox the pass does not
\* end: the loop stays blocked in the dequeue and dispatches nothing.
C13_PassEndsOnlyOnSentinel ==
    [][ \A a \in Actors :
          /\ (pc[a] = "get" /\ pc'[a] # "get")
                => (/\ inbox_[a] # << >>
                    /\ Head(inbox_[a]) = None
                    /\ pc'[a] = "sleep")
          /\ (pc[a] = "get" /\ inbox_[a] = << >>)
                => (pc'[a] = "get" /\ handled'[a] = handled[a]) ]_vars

\* The mailbox became empty without a sentinel and the loop is in the dequeue.
C13_Witness ==
    \E a \in Actors :
        /\ pc[a] = "get"
        /\ inbox_[a] = << >>
        /\ Len(handled[a]) >= 2
        /\ None \notin Range(pushed[a])

\* ---- C14 -----------------------------------------------------------------
\* C14: an actor blocked in the dequeue on an empty mailbox is neither woken
\* nor terminated by exit: a call of exit on it leaves it blocked, and it
\* stays blocked as long as nothing is pushed to its mailbox.
C14_ExitDoesNotWakeBlockedActor ==
    [][ \A a \in Actors :
          (pc[a] = "get" /\ inbox_[a] = << >>)
             => /\ exit_calls'[a] # exit_calls[a]
                    => (pc'[a] = "get" /\ inbox_'[a] = << >>)
                /\ pushed'[a] = pushed[a] => pc'[a] = "get" ]_vars

\* exit has been called on an actor blocked on its empty mailbox after it had
\* dispatched a message, and the actor is still blocked.
C14_Witness ==
    \E a \in Actors :
        /\ pc[a] = "get"
        /\ inbox_[a] = << >>
        /\ handled[a] # << >>
        /\ exit_calls[a] > 0

\* ---- C15 -----------------------------------------------------------------
\* C15: under fair cooperative scheduling every non-sentinel message pending
\* in the mailbox of an actor is eventually dispatched to its handler,
\* whatever the other actor does (blocked on its own empty mailbox, draining,
\* exited or never constructed).
C15_PendingMessageIsDispatched ==
    \A a \in Duo : \A i \in 1 .. MaxPush :
        (Len(pushed[a]) >= i /\ pushed[a][i] # None /\ Dequeued(a) < i)
            ~> (/\ Dequeued(a) = i
                /\ handled[a] # << >>
                /\ handled[a][Len(handled[a])] = pushed[a][i])

\* One actor has just dispatched a message while the other one is blocked on
\* its empty mailbox.
C15_Witness ==
    \E a, b \in Duo :
        /\ a # b
        /\ pc[b] = "get" /\ inbox_[b] = << >>
        /\ pc[a] = "get" /\ Dequeued(a) = 2
        /\ Len(handled[a]) = 2
        /\ handled[a][2] = pushed[a][2]

\* ---- C16 -----------------------------------------------------------------
\* C16: the registry mapping of an actor is removed only by a call of exit on
\* that actor; no step of a run loop (a dequeued sentinel included), no push
\* and no exit of another actor removes it, so that a constructed actor
\* that is not registered is one on which exit has been called.
C16_OnlyOwnExitUnregisters ==
    /\ [][ \A a \in Actors :
             (/\ Constructed(a)
              /\ lookup(processes_, pid_[a]) = a
              /\ lookup(processes_', pid_[a]) # a)
                 => exit_calls'[a] = exit_calls[a] + 1 ]_vars
    /\ [](\A a \in Actors :
             (Constructed(a) /\ lookup(processes_, pid_[a]) # a)
                 => exit_calls[a] > 0)

\* An actor never exited has dequeued a sentinel and is still registered,
\* after the other actor has exited.
C16_Witness ==
    \E a, b \in Actors :
        /\ a # b
        /\ exit_calls[a] = 0
        /\ Dequeued(a) >= 1 /\ pushed[a][1] = None
        /\ pc[a] = "get"
        /\ lookup(processes_, pid_[a]) = a
        /\ exit_calls[b] > 0

\* ---- C17 -----------------------------------------------------------------
\* C17: a call of exit on one actor leaves every other actor as it was:
\* registry mapping, mailbox contents, exiting flag and run-loop position.
C17_ExitLeavesOthersUnchanged ==
    [][ \A a \in Actors :
          exit_calls'[a] # exit_calls[a]
             => \A b \in Actors \ {a} :
                  /\ pc'[b] = pc[b]
                  /\ inbox_'[b] = inbox_[b]
                  /\ is_exiting_'[b] = is_exiting_[b]
                  /\ pid_'[b] = pid_[b]
                  /\ lookup(processes_', pid_[b]) = lookup(processes_, pid_[b])
                  /\ handled'[b] = handled[b] ]_vars

\* exit has been called on one actor while the other one, registered, has
\* messages waiting in the middle of a drain pass.
C17_Witness ==
    \E a, b \in Actors :
        /\ a # b
        /\ exit_calls[a] > 0
        /\ Live(b)
        /\ pc[b] = "get"
        /\ inbox_[b] # << >>
        /\ handled[b] # << >>
        /\ lookup(processes_, pid_[b]) = b

C20_RunReturnsOnlyOnExitingFlag ==
    [][ \A a \in Actors :
          /\ (pc[a] # "done" /\ pc'[a] = "done")
                => (pc[a] \in {"scheduled", "sleep"} /\ is_exiting_[a])
          /\ (pc[a] = "sleep" /\ pc'[a] # "sleep" /\ ~is_exiting_[a])
                => pc'[a] = "get"
          /\ pc[a] = "done" => pc'[a] = "done" ]_vars

\* After a dequeued sentinel the loop has started another drain pass and is
\* blocked on the empty mailbox again.
C20_Witness ==
    \E a \in Actors :
        /\ pc[a] = "get"
        /\ inbox_[a] = << >>
        /\ Dequeued(a) >= 1
        /\ pushed[a][Dequeued(a)] = None
        /\ ~is_exiting_[a]
====
